---- MODULE Spec2Model ----
(***************************************************************************)
(* FileSynchronizer (packages/core/src/sync/synchronizer.ts): a directory  *)
(* tree is scanned into a path -> hash map, fingerprinted by a two-level   *)
(* Merkle DAG, diffed against the held map and persisted as a snapshot.    *)
(*                                                                         *)
(* Strings are sequences of one-character strings, so that split, slice,   *)
(* startsWith and concatenation are computed as the code computes them.    *)
(* A Map<string,string> is a sequence of <<key, value>> pairs in insertion *)
(* order with unique keys.                                                 *)
(***************************************************************************)
EXTENDS Integers, Sequences, FiniteSets, TLC

(***************************************************************************)
(* String helpers (JavaScript String methods used by the source).          *)
(***************************************************************************)
StartsWith(s, pre) ==
    /\ Len(s) >= Len(pre)
    /\ SubSeq(s, 1, Len(pre)) = pre

EndsWith(s, suf) ==
    /\ Len(s) >= Len(suf)
    /\ SubSeq(s, Len(s) - Len(suf) + 1, Len(s)) = suf

\* The elements of a list, as a set.
Range(s) == {s[i] : i \in 1..Len(s)}

Includes(s, c) == \E i \in 1..Len(s) : s[i] = c

\* s.slice(from) with a 0-based start index.
SliceFrom(s, from) == SubSeq(s, from + 1, Len(s))

\* s.slice(0, -n)
DropLast(s, n) == SubSeq(s, 1, Len(s) - n)

RECURSIVE TrimLeft(_)
TrimLeft(s) == IF s # <<>> /\ Head(s) = " " THEN TrimLeft(Tail(s)) ELSE s

RECURSIVE TrimRight(_)
TrimRight(s) ==
    IF s # <<>> /\ s[Len(s)] = " " THEN TrimRight(DropLast(s, 1)) ELSE s

Trim(s) == TrimRight(TrimLeft(s))

\* s.split(sep) for a one-character separator: k separators give k+1 parts.
RECURSIVE SplitAcc(_, _, _)
SplitAcc(s, sep, cur) ==
    IF s = <<>> THEN <<cur>>
    ELSE IF Head(s) = sep THEN <<cur>> \o SplitAcc(Tail(s), sep, <<>>)
    ELSE SplitAcc(Tail(s), sep, Append(cur, Head(s)))

Split(s, sep) == SplitAcc(s, sep, <<>>)

\* s.split(/\/+/): a run of slashes is one separator.
RECURSIVE SlashSplitAcc(_, _, _)
SlashSplitAcc(s, cur, inRun) ==
    IF s = <<>> THEN <<cur>>
    ELSE IF Head(s) = "/"
         THEN IF inRun THEN SlashSplitAcc(Tail(s), cur, TRUE)
              ELSE <<cur>> \o SlashSplitAcc(Tail(s), <<>>, TRUE)
    ELSE SlashSplitAcc(Tail(s), Append(cur, Head(s)), FALSE)

SlashSplit(s) == SlashSplitAcc(s, <<>>, FALSE)

\* .replace(/^\/+|\/+$/g, '')
RECURSIVE StripLeadingSlashes(_)
StripLeadingSlashes(s) ==
    IF s # <<>> /\ Head(s) = "/" THEN StripLeadingSlashes(Tail(s)) ELSE s

RECURSIVE StripTrailingSlashes(_)
StripTrailingSlashes(s) ==
    IF s # <<>> /\ s[Len(s)] = "/" THEN StripTrailingSlashes(DropLast(s, 1)) ELSE s

\* .replace(/\\/g, '/')
BackslashToSlash(s) == [i \in 1..Len(s) |-> IF s[i] = "\\" THEN "/" ELSE s[i]]

(***************************************************************************)
(* minimatch(path, pattern, {dot: false, nocase: false, matchBase}) for    *)
(* patterns over literal characters, '*' and '**' (no braces, classes,     *)
(* '?' or extglobs).                                                       *)
(***************************************************************************)
\* One path segment against one pattern segment; '*' is [^/]*? and, with
\* dot: false, a segment pattern that starts with a wildcard does not match
\* a segment that starts with '.'.
RECURSIVE GlobChars(_, _)
GlobChars(f, p) ==
    IF p = <<>> THEN f = <<>>
    ELSE IF Head(p) = "*"
         THEN \/ GlobChars(f, Tail(p))
              \/ (f # <<>> /\ GlobChars(Tail(f), p))
    ELSE f # <<>> /\ Head(f) = Head(p) /\ GlobChars(Tail(f), Tail(p))

IsMagic(p) == Includes(p, "*")

SegmentMatch(f, p) ==
    IF ~IsMagic(p) THEN f = p
    ELSE /\ f # <<>>
         /\ ~(Head(p) = "*" /\ Head(f) = ".")
         /\ GlobChars(f, p)

IsGlobstar(p) == p = <<"*", "*">>

DotSegment(f) == f # <<>> /\ Head(f) = "."

\* Minimatch.matchOne(file, pattern, partial = false)
RECURSIVE MatchOne(_, _)
MatchOne(file, pattern) ==
    IF file = <<>> /\ pattern = <<>> THEN TRUE
    ELSE IF file = <<>> THEN FALSE
    ELSE IF pattern = <<>> THEN Len(file) = 1 /\ file[1] = <<>>
    ELSE IF IsGlobstar(Head(pattern))
         THEN IF Len(pattern) = 1
              THEN \A i \in 1..Len(file) : ~DotSegment(file[i])
              ELSE \E k \in 0..(Len(file) - 1) :
                      /\ \A j \in 1..k : ~DotSegment(file[j])
                      /\ MatchOne(SubSeq(file, k + 1, Len(file)), Tail(pattern))
    ELSE /\ SegmentMatch(Head(file), Head(pattern))
         /\ MatchOne(Tail(file), Tail(pattern))

\* The last non-empty part of the split path (minimatch's `filename`).
RECURSIVE LastNonEmpty(_)
LastNonEmpty(parts) ==
    IF parts = <<>> THEN <<>>
    ELSE IF parts[Len(parts)] # <<>> THEN parts[Len(parts)]
    ELSE LastNonEmpty(DropLast(parts, 1))

\* Minimatch.parseNegate: every leading '!' flips the result.
RECURSIVE NegateCount(_)
NegateCount(pattern) ==
    IF pattern # <<>> /\ Head(pattern) = "!" THEN 1 + NegateCount(Tail(pattern)) ELSE 0

\* The match without the matchBase option: the whole path is always used.
MinimatchNoBase(p, pattern, matchBase) ==
    IF pattern # <<>> /\ Head(pattern) = "#" THEN FALSE
    ELSE IF pattern = <<>> THEN p = <<>>
    ELSE LET n == NegateCount(pattern)
             hit == MatchOne(SlashSplit(p), SlashSplit(SliceFrom(pattern, n)))
         IN  IF n % 2 = 1 THEN ~hit ELSE hit

\* Minimatch.match(f) after the constructor has parsed the pattern:
\* a '#' pattern is a comment, the empty pattern matches only the empty
\* path, leading '!'s negate.
Minimatch(p, pattern, matchBase) ==
    IF pattern # <<>> /\ Head(pattern) = "#" THEN FALSE
    ELSE IF pattern = <<>> THEN p = <<>>
    ELSE LET n == NegateCount(pattern)
             f == SlashSplit(p)
             set == SlashSplit(SliceFrom(pattern, n))
             file == IF matchBase /\ Len(set) = 1 THEN <<LastNonEmpty(f)>> ELSE f
             hit == MatchOne(file, set)
         IN  IF n % 2 = 1 THEN ~hit ELSE hit

(***************************************************************************)
(* FileSynchronizer.matchGitignorePattern and shouldIgnore.                *)
(***************************************************************************)
\* Lines 174-248: the pattern without its leading and trailing slash, by
\* its class.
MatchClassified(normalizedPath, pattern, isRootRelative, isDirectoryPattern, isDirectory) ==
    LET hasSlash == Includes(pattern, "/")
        mb == ~hasSlash /\ ~isRootRelative
        anyDepth == <<"*", "*", "/">>
        inside == <<"/", "*", "*">>
    IN
    IF isDirectoryPattern
    THEN \/ /\ isDirectory
            /\ \/ Minimatch(normalizedPath, pattern, mb)
               \/ (~isRootRelative /\ Minimatch(normalizedPath, anyDepth \o pattern, mb))
         \/ Minimatch(normalizedPath, pattern \o inside, mb)
         \/ (~isRootRelative /\ Minimatch(normalizedPath, anyDepth \o pattern \o inside, mb))
    ELSE IF isRootRelative
    THEN \/ Minimatch(normalizedPath, pattern, mb)
         \/ Minimatch(normalizedPath, pattern \o inside, mb)
    ELSE IF hasSlash
    THEN \/ /\ EndsWith(pattern, inside)
            /\ Minimatch(normalizedPath, DropLast(pattern, 3), mb)
         \/ Minimatch(normalizedPath, pattern, mb)
         \/ Minimatch(normalizedPath, pattern \o inside, mb)
         \/ Minimatch(normalizedPath, anyDepth \o pattern, mb)
         \/ Minimatch(normalizedPath, anyDepth \o pattern \o inside, mb)
    ELSE Minimatch(normalizedPath, pattern, mb)

\* Lines 161-172: the flags of the trimmed pattern, and the slashes removed.
StripPatternSlashes(trimmed) ==
    LET p1 == IF StartsWith(trimmed, <<"/">>) THEN SliceFrom(trimmed, 1) ELSE trimmed
    IN  IF EndsWith(trimmed, <<"/">>) THEN DropLast(p1, 1) ELSE p1

\* Line 162 left out: a trailing slash is removed and forgotten.
MatchTrimmedNoDirectoryFlag(normalizedPath, trimmed, isDirectory) ==
    IF trimmed = <<>> THEN FALSE
    ELSE IF StartsWith(trimmed, <<"!">>) THEN FALSE
    ELSE MatchClassified(normalizedPath, StripPatternSlashes(trimmed),
                         StartsWith(trimmed, <<"/">>), FALSE, isDirectory)

\* Every pattern taken as root-relative, with or without a leading slash.
MatchTrimmedAnchored(normalizedPath, trimmed, isDirectory) ==
    IF trimmed = <<>> THEN FALSE
    ELSE IF StartsWith(trimmed, <<"!">>) THEN FALSE
    ELSE MatchClassified(normalizedPath, StripPatternSlashes(trimmed),
                         TRUE, EndsWith(trimmed, <<"/">>), isDirectory)

MatchTrimmed(normalizedPath, trimmed, isDirectory) ==
    IF trimmed = <<>> THEN FALSE
    ELSE IF StartsWith(trimmed, <<"!">>) THEN FALSE
    ELSE MatchClassified(normalizedPath, StripPatternSlashes(trimmed),
                         StartsWith(trimmed, <<"/">>), EndsWith(trimmed, <<"/">>),
                         isDirectory)

matchGitignorePattern(normalizedPath, pathWithSlash, rawPattern, isDirectory) ==
    IF rawPattern = <<>> \/ StartsWith(rawPattern, <<"#">>) THEN FALSE
    ELSE MatchTrimmed(normalizedPath, Trim(rawPattern), isDirectory)

\* shouldIgnore(relativePath, isDirectory) under the pattern list `patterns`
\* (this.ignorePatterns); path.sep is '/'.
NormalizePath(relativePath) ==
    StripTrailingSlashes(StripLeadingSlashes(BackslashToSlash(relativePath)))

\* The last pattern that applies decides, and a '!' pattern that applies
\* takes the path back out of the ignored set.
RECURSIVE LastPatternWins(_, _, _, _)
LastPatternWins(patterns, normalizedPath, isDirectory, decided) ==
    IF patterns = <<>> THEN decided
    ELSE LET trimmed == Trim(Head(patterns))
             negated == /\ StartsWith(trimmed, <<"!">>)
                        /\ MatchTrimmed(normalizedPath, Tail(trimmed), isDirectory)
             hit == matchGitignorePattern(normalizedPath, normalizedPath,
                                          Head(patterns), isDirectory)
         IN  LastPatternWins(Tail(patterns), normalizedPath, isDirectory,
                             IF negated THEN FALSE ELSE IF hit THEN TRUE ELSE decided)

MatchAnyPatternNegationWins(patterns, normalizedPath, isDirectory) ==
    IF normalizedPath = <<>> THEN FALSE
    ELSE LastPatternWins(patterns, normalizedPath, isDirectory, FALSE)

\* Lines 124-137.
MatchAnyPattern(patterns, normalizedPath, isDirectory) ==
    IF normalizedPath = <<>> THEN FALSE
    ELSE \E i \in 1..Len(patterns) :
            matchGitignorePattern(normalizedPath,
                                  IF isDirectory THEN normalizedPath \o <<"/">>
                                                 ELSE normalizedPath,
                                  patterns[i], isDirectory)

\* The test of lines 112-115 moved below the test of line 117: with an
\* empty list nothing is ignored.
shouldIgnoreHiddenAfterEmpty(patterns, relativePath, isDirectory) ==
    IF Len(patterns) = 0 THEN FALSE
    ELSE IF \E part \in Range(Split(relativePath, "/")) : StartsWith(part, <<".">>) THEN TRUE
    ELSE MatchAnyPattern(patterns, NormalizePath(relativePath), isDirectory)

shouldIgnore(patterns, relativePath, isDirectory) ==
    IF \E part \in Range(Split(relativePath, "/")) : StartsWith(part, <<".">>) THEN TRUE
    ELSE IF Len(patterns) = 0 THEN FALSE
    ELSE MatchAnyPattern(patterns, NormalizePath(relativePath), isDirectory)

(***************************************************************************)
(* The directory tree.  Every path of the bounded universe has an entry:   *)
(*   type "none"      nothing there                                        *)
(*        "file"      regular file with content `data`; ~ok: EACCES on read*)
(*        "dir"       directory; ~ok: EACCES on readdir                    *)
(*        "symdir"    symbolic link to an (empty) directory: the listing   *)
(*                    reports a non-directory, stat follows the link       *)
(*        "symfile"   symbolic link to a regular file with content `data`  *)
(*        "dangling"  symbolic link to nothing: listed, stat fails (ENOENT)*)
(*        "symloop"   symbolic link to the directory `data` (the root or a  *)
(*                    directory above the link)                            *)
(***************************************************************************)
Root == <<>>
pA  == <<"a">>
pD  == <<"d">>
pDB == <<"d", "/", "b">>
pN  == <<"n">>
pNX == <<"n", "/", "x">>

Slots == {pA, pD, pDB, pN, pNX}

\* File contents; the first NumContents of them are used.
NumContents == 2
AllContents == <<<<"u">>, <<"v">>, <<"w">>>>
Contents == {AllContents[i] : i \in 1..NumContents}

\* crypto.createHash('sha256').update(content).digest('hex'): a digest of
\* fixed length, distinct for distinct contents of the universe.
Sha256(content) ==
    CASE content = <<"u">> -> <<"1">>
      [] content = <<"v">> -> <<"2">>
      [] content = <<"w">> -> <<"3">>
      [] OTHER -> <<"0">>

Entry(t, c, k) == [type |-> t, data |-> c, ok |-> k]
Absent == Entry("none", <<>>, TRUE)
EmptyDir == Entry("dir", <<>>, TRUE)

RECURSIVE JoinParts(_)
JoinParts(parts) ==
    IF parts = <<>> THEN <<>>
    ELSE IF Len(parts) = 1 THEN parts[1]
    ELSE parts[1] \o <<"/">> \o JoinParts(Tail(parts))

\* path.dirname of a relative path ("" for a top-level entry).
Dirname(p) == JoinParts(DropLast(Split(p, "/"), 1))

\* The types a path of the universe may take (the bounds of the tree).
AllowedTypes(p) ==
    CASE p = pA  -> {"none", "file", "dir", "dangling", "symfile", "symdir"}
      [] p = pD  -> {"dir"}
      [] p = pDB -> {"none", "file"}
      [] p = pN  -> {"none", "dir", "symdir"}
      [] p = pNX -> {"none", "file"}

\* The contents a file of the universe may take: a takes every content,
\* d/b one of two, n/x one.
AllowedContents(p) ==
    IF p = pNX THEN {<<"u">>}
    ELSE IF p = pDB THEN {<<"u">>, <<"v">>}
    ELSE Contents

\* The paths of the universe in the order of String comparison.
SlotOrder == <<pA, pD, pDB, pN, pNX>>

IsDirAt(tree, dir) == IF dir = Root THEN TRUE ELSE tree[dir].type = "dir"

RECURSIVE Reverse(_)
Reverse(s) == IF s = <<>> THEN <<>> ELSE Append(Reverse(Tail(s)), Head(s))

RECURSIVE SelectSeq2(_, _, _)
SelectSeq2(s, tree, dir) ==
    IF s = <<>> THEN <<>>
    ELSE IF Dirname(Head(s)) = dir /\ tree[Head(s)].type # "none"
         THEN <<Head(s)>> \o SelectSeq2(Tail(s), tree, dir)
         ELSE SelectSeq2(Tail(s), tree, dir)

\* fs.readdir(dir, {withFileTypes: true}) when it succeeds: the entries of
\* dir, by name ascending or (rev) descending; the order is the file
\* system's choice.  A symbolic link to a directory lists nothing here (its
\* target is empty).
Readdir(tree, dir, rev) ==
    LET asc == IF IsDirAt(tree, dir) THEN SelectSeq2(SlotOrder, tree, dir) ELSE <<>>
    IN  IF rev THEN Reverse(asc) ELSE asc

\* readdir throws (EACCES) on a directory without read permission.
ReaddirFails(tree, dir) == dir # Root /\ tree[dir].type = "dir" /\ ~tree[dir].ok

\* Dirent.isDirectory(): the type the listing reports, links not followed.
DirentIsDirectory(tree, p) == tree[p].type = "dir"

\* fs.stat(p): follows links; "err" when it throws.
Stat(tree, p) ==
    CASE tree[p].type \in {"dir", "symdir"} -> "dir"
      [] tree[p].type \in {"file", "symfile"} -> "file"
      [] OTHER -> "err"

\* Map.prototype.set: an existing key keeps its position.
MapHas(m, k) == \E i \in 1..Len(m) : m[i][1] = k
MapGet(m, k) == m[CHOOSE i \in 1..Len(m) : m[i][1] = k][2]
MapSet(m, k, v) ==
    IF MapHas(m, k)
    THEN [i \in 1..Len(m) |-> IF m[i][1] = k THEN <<k, v>> ELSE m[i]]
    ELSE Append(m, <<k, v>>)
MapKeys(m) == [i \in 1..Len(m) |-> m[i][1]]

RECURSIVE MapSetAll(_, _)
MapSetAll(m, pairs) ==
    IF pairs = <<>> THEN m
    ELSE MapSetAll(MapSet(m, Head(pairs)[1], Head(pairs)[2]), Tail(pairs))

\* The map as a set of <<path, hash>> pairs (a FileState, order forgotten).
AsSet(m) == {m[i] : i \in 1..Len(m)}
KeySet(m) == {m[i][1] : i \in 1..Len(m)}

(***************************************************************************)
(* hashFile and generateFileHashes.  A scan result is the map, the I/O it  *)
(* issued (<<call, path>>) and the paths on which hashFile threw           *)
(* "Attempted to hash a directory".  `race` is a path that is replaced by  *)
(* a directory after the scan's stat and before hashFile's stat (NoRace:   *)
(* none).                                                                  *)
(***************************************************************************)
NoRace == <<"-">>

\* hashFile(filePath): "dir" = throws at line 37, "err" = readFile throws,
\* otherwise the digest.
hashFile(tree, p, race) ==
    IF p = race THEN [threw |-> "dir", hash |-> <<>>, io |-> {<<"hstat", p>>}]
    ELSE IF ~tree[p].ok
         THEN [threw |-> "err", hash |-> <<>>, io |-> {<<"hstat", p>>, <<"read", p>>}]
    ELSE [threw |-> "no", hash |-> Sha256(tree[p].data),
          io |-> {<<"hstat", p>>, <<"read", p>>}]

RECURSIVE generateFileHashes(_, _, _, _, _)
RECURSIVE ScanEntries(_, _, _, _, _, _)

\* Lines 75-80: the sub-directory's entries are set into the map.
MergeSub(acc, sub) ==
    [map |-> MapSetAll(acc.map, sub.map),
     io |-> acc.io \cup sub.io,
     dirThrown |-> acc.dirThrown \cup sub.dirThrown]

\* The try/catch of lines 85-91 left out: a failing hashFile ends the scan
\* of the directory and what it had collected is lost.
AddHashUncaught(acc, relativePath, h) ==
    IF h.threw = "no"
    THEN [acc EXCEPT !.io = @ \cup h.io, !.map = MapSet(@, relativePath, h.hash)]
    ELSE [acc EXCEPT !.io = @ \cup h.io, !.map = <<>>]

\* Lines 85-91: the hash is set into the map; whatever hashFile throws is
\* caught, logged and the entry skipped.
AddHash(acc, relativePath, h) ==
    IF h.threw = "no"
    THEN [acc EXCEPT !.io = @ \cup h.io, !.map = MapSet(@, relativePath, h.hash)]
    ELSE IF h.threw = "dir"
         THEN [acc EXCEPT !.io = @ \cup h.io, !.dirThrown = @ \cup {relativePath}]
         ELSE [acc EXCEPT !.io = @ \cup h.io]

\* Lines 72-94, once stat has answered st.
ScanStatted(tree, patterns, rev, race, acc, fullPath, st) ==
    IF st = "err" THEN acc
    ELSE IF st = "dir"
    THEN IF ~shouldIgnore(patterns, fullPath, TRUE)
         THEN MergeSub(acc, generateFileHashes(tree, patterns, rev, race, fullPath))
         ELSE acc
    ELSE IF ~shouldIgnore(patterns, fullPath, FALSE)
         THEN AddHash(acc, fullPath, hashFile(tree, fullPath, race))
         ELSE acc

\* The check of line 59 left out: every entry is stat'ed first.
ScanEntryStatFirst(tree, patterns, rev, race, acc, fullPath) ==
    ScanStatted(tree, patterns, rev, race,
                [acc EXCEPT !.io = @ \cup {<<"stat", fullPath>>}],
                fullPath, Stat(tree, fullPath))

\* One iteration of the for loop of generateFileHashes (lines 54-95);
\* fullPath is kept relative to the root, so relativePath = fullPath.
ScanEntry(tree, patterns, rev, race, acc, fullPath) ==
    IF shouldIgnore(patterns, fullPath, DirentIsDirectory(tree, fullPath))
    THEN acc
    ELSE ScanStatted(tree, patterns, rev, race,
                     [acc EXCEPT !.io = @ \cup {<<"stat", fullPath>>}],
                     fullPath, Stat(tree, fullPath))

ScanEntries(tree, patterns, rev, race, acc, entries) ==
    IF entries = <<>> THEN acc
    ELSE ScanEntries(tree, patterns, rev, race,
                     ScanEntry(tree, patterns, rev, race, acc, Head(entries)),
                     Tail(entries))

ScanStart(dir) == [map |-> <<>>, io |-> {<<"readdir", dir>>}, dirThrown |-> {}]

generateFileHashes(tree, patterns, rev, race, dir) ==
    IF ReaddirFails(tree, dir) THEN ScanStart(dir)
    ELSE ScanEntries(tree, patterns, rev, race, ScanStart(dir), Readdir(tree, dir, rev))

(***************************************************************************)
(* MerkleDAG (./merkle): a set of content-addressed nodes.  A node's id is *)
(* the digest of its data, so equal data is one node; compare reports the  *)
(* ids only in the second DAG, only in the first, and in both with         *)
(* different data.                                                         *)
(***************************************************************************)
NodeId(data) == <<"#">> \o data

EmptyDAG == [nodes |-> {}]

addNode(dag, data) ==
    [nodes |-> {n \in dag.nodes : n.id # NodeId(data)}
                 \cup {[id |-> NodeId(data), data |-> data]}]

DagIds(dag) == {n.id : n \in dag.nodes}

DagCompare(dag1, dag2) ==
    [added    |-> DagIds(dag2) \ DagIds(dag1),
     removed  |-> DagIds(dag1) \ DagIds(dag2),
     modified |-> {n1.id : n1 \in {m \in dag1.nodes :
                      \E n2 \in dag2.nodes : n2.id = m.id /\ n2.data # m.data}}]

\* serialize(): a plain copy of the nodes.
DagSerialize(dag) == dag

(***************************************************************************)
(* buildMerkleDAG, compareStates.                                          *)
(***************************************************************************)
\* keys.forEach(key => valuesString += fileHashes.get(key)), keys in
\* insertion order.
RECURSIVE ConcatValues(_, _)
ConcatValues(m, keys) ==
    IF keys = <<>> THEN <<>>
    ELSE MapGet(m, Head(keys)) \o ConcatValues(m, Tail(keys))

RECURSIVE AddLeaves(_, _, _)
AddLeaves(dag, m, paths) ==
    IF paths = <<>> THEN dag
    ELSE AddLeaves(addNode(dag, Head(paths) \o <<":">> \o MapGet(m, Head(paths))),
                   m, Tail(paths))

\* Lines 253, 257-261: the hashes in the order of the map's keys, after
\* 'root:'.
rootNodeData(m) == <<"r", "o", "o", "t", ":">> \o ConcatValues(m, MapKeys(m))

\* Lines 265-268 left out: a DAG of the root node alone.
buildMerkleDAGRootOnly(m) ==
    addNode(EmptyDAG, <<"r", "o", "o", "t", ":">> \o ConcatValues(m, MapKeys(m)))

\* The leaves are added in sorted-path order (line 254); a DAG is a set of
\* nodes, so the order of the additions does not show in it.
buildMerkleDAG(m) ==
    AddLeaves(addNode(EmptyDAG, rootNodeData(m)), m, MapKeys(m))

\* The hash comparison of line 316 left out: every path in both maps counts
\* as modified.
RECURSIVE AddedModifiedNoHashCheck(_, _, _)
AddedModifiedNoHashCheck(old, entries, acc) ==
    IF entries = <<>> THEN acc
    ELSE AddedModifiedNoHashCheck(old, Tail(entries),
            IF ~MapHas(old, Head(entries)[1])
            THEN [acc EXCEPT !.added = Append(@, Head(entries)[1])]
            ELSE [acc EXCEPT !.modified = Append(@, Head(entries)[1])])

RECURSIVE AddedModified(_, _, _)
AddedModified(old, entries, acc) ==
    IF entries = <<>> THEN acc
    ELSE LET file == Head(entries)[1]
             hash == Head(entries)[2]
             acc1 == IF ~MapHas(old, file)
                     THEN [acc EXCEPT !.added = Append(@, file)]
                     ELSE IF MapGet(old, file) # hash
                          THEN [acc EXCEPT !.modified = Append(@, file)]
                          ELSE acc
         IN  AddedModified(old, Tail(entries), acc1)

RECURSIVE Removed(_, _, _)
Removed(new, oldKeys, acc) ==
    IF oldKeys = <<>> THEN acc
    ELSE Removed(new, Tail(oldKeys),
                 IF ~MapHas(new, Head(oldKeys))
                 THEN [acc EXCEPT !.removed = Append(@, Head(oldKeys))]
                 ELSE acc)

EmptyDiff == [added |-> <<>>, removed |-> <<>>, modified |-> <<>>]

compareStates(oldHashes, newHashes) ==
    Removed(newHashes, MapKeys(oldHashes),
            AddedModified(oldHashes, newHashes, EmptyDiff))

(***************************************************************************)
(* The location of a snapshot file.                                        *)
(***************************************************************************)
\* path.resolve on an absolute path: empty and '.' segments are dropped,
\* '..' drops the segment before it.
RECURSIVE ResolveParts(_, _)
ResolveParts(parts, acc) ==
    IF parts = <<>> THEN acc
    ELSE IF Head(parts) = <<>> \/ Head(parts) = <<".">> THEN ResolveParts(Tail(parts), acc)
    ELSE IF Head(parts) = <<".", ".">>
         THEN ResolveParts(Tail(parts), IF acc = <<>> THEN acc ELSE DropLast(acc, 1))
    ELSE ResolveParts(Tail(parts), Append(acc, Head(parts)))

Resolve(p) == <<"/">> \o JoinParts(ResolveParts(Split(p, "/"), <<>>))

\* crypto.createHash('md5').update(s).digest('hex'): distinct for the
\* distinct paths of the universe.
Md5(str) == <<"md5:">> \o str

\* path.join(os.homedir(), '.context', 'merkle')
MerkleDir == <<"~", "/", ".context", "/", "merkle">>

\* Line 27 left out: the path is hashed as it was passed.
getSnapshotPathUnresolved(codebasePath) ==
    MerkleDir \o <<"/">> \o Md5(codebasePath) \o <<".json">>

\* getSnapshotPath(codebasePath) (lines 23-31).
getSnapshotPath(codebasePath) ==
    MerkleDir \o <<"/">> \o Md5(Resolve(codebasePath)) \o <<".json">>

\* The snapshotPath of deleteSnapshot (lines 395-399).
DeleteSnapshotPath(codebasePath) ==
    MerkleDir \o <<"/">> \o Md5(Resolve(codebasePath)) \o <<".json">>

\* The rootDir this synchronizer was constructed with, and the paths
\* callers pass to deleteSnapshot and other synchronizers are made for.
RootDir == <<"/", "r", "/">>
Roots == {RootDir,
          <<"/", "r">>,
          <<"/", "s", "/", ".", ".", "/", "r">>,
          <<"/", "s">>}

\* this.snapshotPath (line 17).
snapshotPath == getSnapshotPath(RootDir)

\* Two paths have the same snapshot location exactly when they resolve to
\* the same directory.
LocationByResolvedRoot ==
    \A r1, r2 \in Roots :
        (getSnapshotPath(r1) = getSnapshotPath(r2)) <=> (Resolve(r1) = Resolve(r2))

\* The paths that resolve to the rootDir of this synchronizer.
SameRoot == {r \in Roots : Resolve(r) = Resolve(RootDir)}

(***************************************************************************)
(* State.                                                                  *)
(***************************************************************************)
VARIABLES
    fs,              \* the directory tree: path -> entry
    snapshot,        \* the snapshot file of this root (at this.snapshotPath)
    store,           \* the other locations of the snapshot directory that
                     \* hold a file
    fileHashes,      \* this.fileHashes
    merkleDAG,       \* this.merkleDAG
    ignorePatterns,  \* this.ignorePatterns
    status,          \* "Uninitialized", "Ready" (initialize() returned) or
                     \* "Failed" (the last initialize() threw)
    clean,           \* no checkForChanges() threw since initialize() returned
    replay,          \* the key set held after initialize(), with every
                     \* returned diff applied since
    ret              \* what the call that has just finished did and returned

vars == <<fs, snapshot, store, fileHashes, merkleDAG, ignorePatterns, status, clean, replay, ret>>

\* The snapshot file: kind "none" (no file), "ok", "unreadable" (no
\* permission on the file), "badjson" (JSON.parse throws) or "malformed"
\* (fileHashes holds the pairs before an element that is not a pair).
NoSnapshot == [kind |-> "none", fileHashes |-> <<>>, merkleDAG |-> EmptyDAG]

NoRet ==
    [op |-> "none", outcome |-> "-", after |-> "-", diff |-> EmptyDiff,
     gate |-> FALSE, compared |-> FALSE, wrote |-> FALSE, scanned |-> FALSE,
     loadFailed |-> FALSE, same |-> FALSE, scan |-> {}, io |-> {}, dirThrown |-> {},
     race |-> NoRace, patterns |-> <<>>, root |-> <<>>,
     path |-> <<>>, isDirectory |-> FALSE, ignored |-> FALSE,
     other |-> <<>>, rootData |-> <<>>, otherRootData |-> <<>>, frames |-> <<>>]

\* What the previous step was, for the call that follows it.
Previous ==
    IF ret.op = "initialize" /\ ret.outcome = "ok"
    THEN IF ret.scanned THEN "initialize-scanned" ELSE "initialize-loaded"
    ELSE IF ret.op = "checkForChanges" THEN "checkForChanges"
    ELSE IF ret.op = "updateIgnorePatterns" THEN "updateIgnorePatterns"
    ELSE IF ret.op = "deleteSnapshot" /\ ret.outcome = "ok" /\ ret.root \in SameRoot
         THEN "deleteSnapshot"
    ELSE "other"

DiffEmpty(d) == d.added = <<>> /\ d.removed = <<>> /\ d.modified = <<>>

Init ==
    /\ fs = [p \in Slots |->
               CASE p = pA  -> Entry("file", <<"u">>, TRUE)
                 [] p = pD  -> EmptyDir
                 [] p = pDB -> Entry("file", <<"v">>, TRUE)
                 [] p = pN  -> EmptyDir
                 [] p = pNX -> Entry("file", <<"u">>, TRUE)]
    /\ snapshot = NoSnapshot
    /\ store = {}
    /\ fileHashes = <<>>
    /\ merkleDAG = EmptyDAG
    /\ ignorePatterns = <<<<"n", "/">>>>
    /\ status = "Uninitialized"
    /\ clean = FALSE
    /\ replay = {}
    /\ ret = NoRet

(***************************************************************************)
(* The environment: other programs change the tree and the snapshot file.  *)
(***************************************************************************)
HasChildren(tree, p) == \E c \in Slots : Dirname(c) = p /\ tree[c].type # "none"

EnvFrame ==
    /\ ret' = NoRet
    /\ UNCHANGED <<store, fileHashes, merkleDAG, ignorePatterns, status, clean, replay>>

\* Create a file or replace its content.
WriteFile(p, c) ==
    /\ "file" \in AllowedTypes(p)
    /\ c \in AllowedContents(p)
    /\ IsDirAt(fs, Dirname(p))
    /\ IF fs[p].type = "file" THEN fs[p].data # c ELSE fs[p].type = "none"
    /\ fs' = [fs EXCEPT ![p] = Entry("file", c, IF fs[p].type = "file" THEN fs[p].ok ELSE TRUE)]
    /\ UNCHANGED snapshot
    /\ EnvFrame

\* unlink / rmdir (of an empty directory).
Remove(p) ==
    /\ "none" \in AllowedTypes(p)
    /\ fs[p].type # "none"
    /\ ~HasChildren(fs, p)
    /\ fs' = [fs EXCEPT ![p] = Absent]
    /\ UNCHANGED snapshot
    /\ EnvFrame

\* mkdir, or ln -s to a directory ("symdir"), to a regular file with
\* content u ("symfile") or to nothing ("dangling").
MakeEntry(p, t) ==
    /\ t \in AllowedTypes(p) \ {"none", "file"}
    /\ IsDirAt(fs, Dirname(p))
    /\ fs[p].type = "none"
    /\ fs' = [fs EXCEPT ![p] = Entry(t, IF t = "symfile" THEN <<"u">> ELSE <<>>, TRUE)]
    /\ UNCHANGED snapshot
    /\ EnvFrame

\* chmod: take away or give back the read permission of a file or directory.
Chmod(p) ==
    /\ p \in {pA, pD}
    /\ fs[p].type \in {"file", "dir"}
    /\ fs' = [fs EXCEPT ![p].ok = ~@]
    /\ UNCHANGED snapshot
    /\ EnvFrame

\* The snapshot file is damaged or made unreadable.
DamageSnapshot(kind, keep) ==
    /\ snapshot.kind = "ok"
    /\ kind \in {"unreadable", "badjson", "malformed"}
    /\ keep \in 0..Len(snapshot.fileHashes)
    /\ kind # "malformed" => keep = 0
    /\ snapshot' = [kind |-> kind,
                    fileHashes |-> SubSeq(snapshot.fileHashes, 1, keep),
                    merkleDAG |-> EmptyDAG]
    /\ UNCHANGED fs
    /\ EnvFrame

(***************************************************************************)
(* The synchronizer.                                                       *)
(***************************************************************************)
\* The paths a race may replace by a directory during a scan.
RaceChoices == {NoRace} \cup {p \in Slots : {"file", "dir"} \subseteq AllowedTypes(p)}

\* A scan of the whole tree, and the tree it leaves behind.
Scan(rev, race) == generateFileHashes(fs, ignorePatterns, rev, race, Root)

RaceHappens(scan, race) == IF race = NoRace THEN TRUE ELSE <<"hstat", race>> \in scan.io

AfterRace(race) == IF race = NoRace THEN fs ELSE [fs EXCEPT ![race] = EmptyDir]

\* JSON.stringify of a string: quoted, with '"' and '\' escaped.
RECURSIVE JsonEscape(_)
JsonEscape(str) ==
    IF str = <<>> THEN <<>>
    ELSE IF Head(str) = "\"" \/ Head(str) = "\\"
         THEN <<"\\", Head(str)>> \o JsonEscape(Tail(str))
    ELSE <<Head(str)>> \o JsonEscape(Tail(str))

JsonString(str) == <<"\"">> \o JsonEscape(str) \o <<"\"">>

\* JSON.stringify of fileHashesArray (lines 350-357): [["k","v"],...].
RECURSIVE JsonPairs(_)
JsonPairs(pairs) ==
    IF pairs = <<>> THEN <<>>
    ELSE <<"[">> \o JsonString(Head(pairs)[1]) \o <<",">> \o JsonString(Head(pairs)[2])
            \o <<"]">>
            \o (IF Len(pairs) > 1 THEN <<",">> ELSE <<>>) \o JsonPairs(Tail(pairs))

JsonStringify(pairs) == <<"[">> \o JsonPairs(pairs) \o <<"]">>

\* JSON.parse (line 367) of such a text.  ReadString starts after the
\* opening quote and gives the string and the position after the closing
\* quote.
RECURSIVE ReadString(_, _, _)
ReadString(text, i, acc) ==
    IF text[i] = "\"" THEN [val |-> acc, next |-> i + 1]
    ELSE IF text[i] = "\\" THEN ReadString(text, i + 2, Append(acc, text[i + 1]))
    ELSE ReadString(text, i + 1, Append(acc, text[i]))

ReadValue(text, key) ==
    [pair |-> <<key.val, ReadString(text, key.next + 2, <<>>).val>>,
     next |-> ReadString(text, key.next + 2, <<>>).next + 1]

RECURSIVE ReadPairs(_, _, _)
ReadPairs(text, i, acc) ==
    IF text[i] = "]" THEN acc
    ELSE IF text[i] = "," THEN ReadPairs(text, i + 1, acc)
    ELSE ReadPairs(text, ReadValue(text, ReadString(text, i + 2, <<>>)).next,
                   Append(acc, ReadValue(text, ReadString(text, i + 2, <<>>)).pair))

JsonParse(text) == ReadPairs(text, 2, <<>>)

\* saveSnapshot(): mkdir and writeFile; they fail on a file without
\* permissions, and may fail for the directory or the disk (wfail).
\* The pairs of lines 350-354 left out of the document.
SavedSnapshotNoPairs(m, dag) ==
    [kind |-> "ok", fileHashes |-> <<>>, merkleDAG |-> DagSerialize(dag)]

\* The keys sorted before lines 352-354: the pairs are written in path
\* order, not in the map's order.
SavedSnapshotSorted(m, dag) ==
    [kind |-> "ok",
     fileHashes |-> JsonParse(JsonStringify(
                        SelectSeq([i \in 1..Len(SlotOrder) |->
                                     IF MapHas(m, SlotOrder[i])
                                     THEN <<SlotOrder[i], MapGet(m, SlotOrder[i])>>
                                     ELSE <<>>], LAMBDA pr : pr # <<>>))),
     merkleDAG |-> DagSerialize(dag)]

\* The snapshot file after saveSnapshot() (lines 345-362); fileHashes is
\* what JSON.parse gives for the text written.
SavedSnapshot(m, dag) ==
    [kind |-> "ok", fileHashes |-> JsonParse(JsonStringify(m)),
     merkleDAG |-> DagSerialize(dag)]

WriteMustFail == snapshot.kind = "unreadable"

\* new FileSynchronizer(rootDir, patterns): a new process starts.
Construct(patterns) ==
    /\ fileHashes' = <<>>
    /\ merkleDAG' = EmptyDAG
    /\ ignorePatterns' = patterns
    /\ status' = "Uninitialized"
    /\ clean' = FALSE
    /\ replay' = {}
    /\ ret' = [NoRet EXCEPT !.op = "new"]
    /\ UNCHANGED <<fs, snapshot, store>>

\* Lines 370-373 left out: the snapshot is read and the held map stays.
InitializeLoadedNotAdopted ==
    /\ snapshot.kind = "ok"
    /\ merkleDAG' = buildMerkleDAG(fileHashes)
    /\ replay' = KeySet(fileHashes)
    /\ status' = "Ready"
    /\ clean' = TRUE
    /\ ret' = [NoRet EXCEPT !.op = "initialize", !.outcome = "ok", !.after = Previous]
    /\ UNCHANGED <<fs, snapshot, store, ignorePatterns, fileHashes>>

\* initialize() when readFile and JSON.parse succeed and fileHashes is a
\* list of pairs (lines 366-378, then 276).
InitializeLoaded ==
    /\ snapshot.kind = "ok"
    /\ LET loaded == MapSetAll(<<>>, snapshot.fileHashes) IN
       /\ fileHashes' = loaded
       /\ merkleDAG' = buildMerkleDAG(loaded)
       /\ replay' = KeySet(loaded)
    /\ status' = "Ready"
    /\ clean' = TRUE
    /\ ret' = [NoRet EXCEPT !.op = "initialize", !.outcome = "ok", !.after = Previous]
    /\ UNCHANGED <<fs, snapshot, store, ignorePatterns>>

\* initialize() when loading throws something other than ENOENT: the error
\* is rethrown (line 386).  A malformed fileHashes throws inside the loop
\* of line 371, after line 370 has replaced the map.
InitializeLoadFails ==
    /\ snapshot.kind \in {"unreadable", "badjson", "malformed"}
    /\ fileHashes' = IF snapshot.kind = "malformed"
                     THEN MapSetAll(<<>>, snapshot.fileHashes)
                     ELSE fileHashes
    /\ status' = "Failed"
    /\ clean' = FALSE
    /\ replay' = {}
    /\ ret' = [NoRet EXCEPT !.op = "initialize", !.outcome = "threw", !.after = Previous,
                            !.loadFailed = TRUE]
    /\ UNCHANGED <<fs, snapshot, store, merkleDAG, ignorePatterns>>

\* initialize() when there is no snapshot file (ENOENT, lines 380-384):
\* scan, build, save; then line 276.
InitializeWith(scan, race, wfail) ==
    /\ RaceHappens(scan, race)
    /\ fs' = AfterRace(race)
    /\ fileHashes' = scan.map
    /\ merkleDAG' = buildMerkleDAG(scan.map)
    /\ snapshot' = IF wfail THEN snapshot
                   ELSE SavedSnapshot(scan.map, buildMerkleDAG(scan.map))
    /\ status' = IF wfail THEN "Failed" ELSE "Ready"
    /\ clean' = ~wfail
    /\ replay' = IF wfail THEN {} ELSE KeySet(scan.map)
    /\ ret' = [NoRet EXCEPT !.op = "initialize",
                            !.outcome = IF wfail THEN "threw" ELSE "ok",
                            !.after = Previous,
                            !.scanned = TRUE, !.wrote = ~wfail,
                            !.same = (AsSet(scan.map) = AsSet(fileHashes)),
                            !.scan = AsSet(scan.map),
                            !.io = scan.io, !.dirThrown = scan.dirThrown,
                            !.race = race]
    /\ UNCHANGED <<ignorePatterns, store>>

\* wfails: whether the write of the snapshot may succeed, may fail.
InitializeScanned(rev, race, wfails) ==
    /\ snapshot.kind = "none"
    /\ \E wfail \in wfails : InitializeWith(Scan(rev, race), race, wfail)

\* Lines 294-295 left out: the held map and DAG are never replaced.
HeldNeverReplaced(gate, newFileHashes, newMerkleDAG) ==
    [fileHashes |-> fileHashes, merkleDAG |-> merkleDAG]

\* Lines 290, 294-295: the held map and DAG after the check.
HeldAfterCheck(gate, newFileHashes, newMerkleDAG) ==
    IF gate THEN [fileHashes |-> newFileHashes, merkleDAG |-> newMerkleDAG]
    ELSE [fileHashes |-> fileHashes, merkleDAG |-> merkleDAG]

\* Line 296 left out: a check never writes the snapshot.
SnapshotNeverWritten(gate, wfail, newFileHashes, newMerkleDAG) == snapshot

\* Lines 290, 296: the snapshot file after the check.
SnapshotAfterCheck(gate, wfail, newFileHashes, newMerkleDAG) ==
    IF gate /\ ~wfail THEN SavedSnapshot(newFileHashes, newMerkleDAG) ELSE snapshot

\* Lines 290-303: gate is the outcome of the DAG comparison of line 287.
CheckGated(scan, newMerkleDAG, gate, race, wfail) ==
    /\ RaceHappens(scan, race)
    /\ wfail => gate
    /\ (gate /\ WriteMustFail) => wfail
    /\ fs' = AfterRace(race)
    /\ fileHashes' = HeldAfterCheck(gate, scan.map, newMerkleDAG).fileHashes
    /\ merkleDAG' = HeldAfterCheck(gate, scan.map, newMerkleDAG).merkleDAG
    /\ snapshot' = SnapshotAfterCheck(gate, wfail, scan.map, newMerkleDAG)
    /\ clean' = (clean /\ ~(gate /\ wfail))
    /\ replay' = IF ~clean \/ (gate /\ wfail) THEN {}
                 ELSE IF gate
                 THEN (replay \cup Range(compareStates(fileHashes, scan.map).added))
                          \ Range(compareStates(fileHashes, scan.map).removed)
                 ELSE replay
    /\ ret' = [NoRet EXCEPT !.op = "checkForChanges",
                            !.outcome = IF gate /\ wfail THEN "threw" ELSE "ok",
                            !.after = IF race = NoRace THEN Previous ELSE "other",
                            !.diff = IF gate /\ ~wfail
                                     THEN compareStates(fileHashes, scan.map)
                                     ELSE EmptyDiff,
                            !.gate = gate, !.compared = gate, !.wrote = gate /\ ~wfail,
                            !.scanned = TRUE,
                            !.same = (AsSet(scan.map) = AsSet(fileHashes)),
                            !.scan = AsSet(scan.map),
                            !.io = scan.io, !.dirThrown = scan.dirThrown,
                            !.race = race]
    /\ UNCHANGED <<ignorePatterns, status, store>>

DagChanged(changes) ==
    Cardinality(changes.added) > 0 \/ Cardinality(changes.removed) > 0
        \/ Cardinality(changes.modified) > 0

\* Lines 284-287.
CheckBuilt(scan, newMerkleDAG, race, wfails) ==
    \E wfail \in wfails :
        CheckGated(scan, newMerkleDAG, DagChanged(DagCompare(merkleDAG, newMerkleDAG)),
                   race, wfail)

CheckScanned(scan, race, wfails) ==
    CheckBuilt(scan, buildMerkleDAG(scan.map), race, wfails)

\* checkForChanges() (lines 280-304).  The caller calls it on an instance
\* whose initialize() has returned (the contract's "Ready only").
checkForChanges(rev, race, wfails) ==
    /\ status = "Ready"
    /\ CheckScanned(Scan(rev, race), race, wfails)

\* getFileHash(filePath) (lines 332-334): the held hash, or undefined.
getFileHash(filePath) ==
    IF MapHas(fileHashes, filePath) THEN MapGet(fileHashes, filePath) ELSE <<"undefined">>

\* Line 341 left out: the list is logged and not stored.
updateIgnorePatternsNotStored(patterns) ==
    /\ ret' = [NoRet EXCEPT !.op = "updateIgnorePatterns", !.patterns = patterns]
    /\ UNCHANGED <<fs, snapshot, store, fileHashes, merkleDAG, ignorePatterns, status, clean, replay>>

\* updateIgnorePatterns(ignorePatterns) (lines 340-343).
updateIgnorePatterns(patterns) ==
    /\ ignorePatterns' = patterns
    /\ ret' = [NoRet EXCEPT !.op = "updateIgnorePatterns", !.patterns = patterns]
    /\ UNCHANGED <<fs, snapshot, store, fileHashes, merkleDAG, status, clean, replay>>

\* The test of line 405 left out: ENOENT is rethrown like any other error.
deleteSnapshotRethrowsAll(codebasePath, efail) ==
    /\ efail => IF DeleteSnapshotPath(codebasePath) = snapshotPath
                THEN snapshot.kind # "none"
                ELSE DeleteSnapshotPath(codebasePath) \in store
    /\ snapshot' = IF DeleteSnapshotPath(codebasePath) = snapshotPath /\ ~efail
                   THEN NoSnapshot ELSE snapshot
    /\ store' = IF efail THEN store ELSE store \ {DeleteSnapshotPath(codebasePath)}
    /\ ret' = [NoRet EXCEPT !.op = "deleteSnapshot",
                            !.outcome = IF efail THEN "threw"
                                        ELSE IF DeleteSnapshotPath(codebasePath) = snapshotPath
                                        THEN IF snapshot.kind = "none" THEN "threw" ELSE "ok"
                                        ELSE IF DeleteSnapshotPath(codebasePath) \in store
                                        THEN "ok" ELSE "threw",
                            !.after = IF ret.op = "deleteSnapshot"
                                      THEN "deleteSnapshot" ELSE "-",
                            !.root = codebasePath]
    /\ UNCHANGED <<fs, fileHashes, merkleDAG, ignorePatterns, status, clean, replay>>

\* FileSynchronizer.deleteSnapshot(codebasePath) (lines 394-412): unlink of
\* the location computed from the path; ENOENT is swallowed, another error
\* (efail: the file is there and unlink fails) is rethrown.  The location
\* is this instance's snapshot file or another one of the directory.
deleteSnapshot(codebasePath, efail) ==
    /\ efail => IF DeleteSnapshotPath(codebasePath) = snapshotPath
                THEN snapshot.kind # "none"
                ELSE DeleteSnapshotPath(codebasePath) \in store
    /\ snapshot' = IF DeleteSnapshotPath(codebasePath) = snapshotPath /\ ~efail
                   THEN NoSnapshot ELSE snapshot
    /\ store' = IF efail THEN store ELSE store \ {DeleteSnapshotPath(codebasePath)}
    /\ ret' = [NoRet EXCEPT !.op = "deleteSnapshot",
                            !.outcome = IF efail THEN "threw" ELSE "ok",
                            !.after = IF ret.op = "deleteSnapshot"
                                      THEN "deleteSnapshot" ELSE "-",
                            !.root = codebasePath]
    /\ UNCHANGED <<fs, fileHashes, merkleDAG, ignorePatterns, status, clean, replay>>

\* Another synchronizer, for a root with another snapshot location, saves
\* its snapshot.
SaveOther(codebasePath) ==
    /\ getSnapshotPath(codebasePath) # snapshotPath
    /\ getSnapshotPath(codebasePath) \notin store
    /\ store' = store \cup {getSnapshotPath(codebasePath)}
    /\ ret' = NoRet
    /\ UNCHANGED <<fs, snapshot, fileHashes, merkleDAG, ignorePatterns, status, clean, replay>>

(***************************************************************************)
(* Spec: the life of a synchronizer (processes start, initialize, check,   *)
(* fail to write, lose or find a damaged snapshot) over a tree whose files *)
(* are created, rewritten and removed.                                     *)
(***************************************************************************)
\* A damaged fileHashes list keeps at most MaxKept pairs before the element
\* that is not a pair.
MaxKept == 1

\* The files other programs create, rewrite and remove.
Tracked == {pA, pDB}

Next ==
    \/ \E p \in Tracked, c \in Contents : WriteFile(p, c)
    \/ \E p \in Tracked : Remove(p)
    \/ \E kind \in {"unreadable", "badjson", "malformed"}, keep \in 0..MaxKept :
          DamageSnapshot(kind, keep)
    \/ Construct(ignorePatterns)
    \/ InitializeLoaded
    \/ InitializeLoadFails
    \/ \E rev \in BOOLEAN : InitializeScanned(rev, NoRace, BOOLEAN)
    \/ \E rev \in BOOLEAN : checkForChanges(rev, NoRace, BOOLEAN)
    \/ \E efail \in BOOLEAN : deleteSnapshot(RootDir, efail)

Spec == Init /\ [][Next]_vars

(***************************************************************************)
(* SpecIO: one synchronizer over a tree with unreadable files and          *)
(* directories, symbolic links, and entries that turn into directories     *)
(* while they are scanned.                                                 *)
(***************************************************************************)
NextIO ==
    \/ \E p \in Slots, c \in Contents : WriteFile(p, c)
    \/ \E p \in Slots : Remove(p)
    \/ \E p \in Slots, t \in {"dir", "symdir", "symfile", "dangling"} : MakeEntry(p, t)
    \/ \E p \in Slots : Chmod(p)
    \/ \E rev \in BOOLEAN, race \in RaceChoices : InitializeScanned(rev, race, {FALSE})
    \/ \E rev \in BOOLEAN, race \in RaceChoices : checkForChanges(rev, race, {FALSE})

SpecIO == Init /\ [][NextIO]_vars

(***************************************************************************)
(* SpecPatterns: one synchronizer whose caller replaces the pattern list   *)
(* between checks, over a tree whose files are created, rewritten and      *)
(* removed.                                                                *)
(***************************************************************************)
\* The pattern lists a caller passes.
PatternLists == {<<>>, <<<<"n", "/">>>>, <<<<"a">>>>}

NextPatterns ==
    \/ \E p \in Tracked, c \in Contents : WriteFile(p, c)
    \/ \E p \in Tracked : Remove(p)
    \/ \E patterns \in PatternLists : updateIgnorePatterns(patterns)
    \/ \E rev \in BOOLEAN : InitializeScanned(rev, NoRace, {FALSE})
    \/ \E rev \in BOOLEAN : checkForChanges(rev, NoRace, {FALSE})

SpecPatterns == Init /\ [][NextPatterns]_vars

(***************************************************************************)
(* SpecLocation: this synchronizer beside snapshots of other roots, with   *)
(* deleteSnapshot called for any path.                                     *)
(***************************************************************************)
NextLocation ==
    \/ \E p \in Tracked, c \in Contents : WriteFile(p, c)
    \/ \E p \in Tracked : Remove(p)
    \/ \E r \in Roots : SaveOther(r)
    \/ \E r \in Roots, efail \in BOOLEAN : deleteSnapshot(r, efail)
    \/ InitializeLoaded
    \/ \E rev \in BOOLEAN : InitializeScanned(rev, NoRace, {FALSE})
    \/ \E rev \in BOOLEAN : checkForChanges(rev, NoRace, {FALSE})

SpecLocation == Init /\ [][NextLocation]_vars

(***************************************************************************)
(* SpecMatch: shouldIgnore applied to every pattern list and path of a     *)
(* bounded universe.                                                       *)
(***************************************************************************)
\* The relative paths asked about.
MatchPaths ==
    {
     \* public/app
     <<"p", "u", "b", "l", "i", "c", "/", "a", "p", "p">>,
     \* public/app/
     <<"p", "u", "b", "l", "i", "c", "/", "a", "p", "p", "/">>,
     \* public/app/bundle.js
     <<"p", "u", "b", "l", "i", "c", "/", "a", "p", "p", "/", "b", "u", "n",
       "d", "l", "e", ".", "j", "s">>,
     \* src/public/app
     <<"s", "r", "c", "/", "p", "u", "b", "l", "i", "c", "/", "a", "p",
       "p">>,
     \* public/apple
     <<"p", "u", "b", "l", "i", "c", "/", "a", "p", "p", "l", "e">>,
     \* node_modules
     <<"n", "o", "d", "e", "_", "m", "o", "d", "u", "l", "e", "s">>,
     \* node_modules/lodash/index.js
     <<"n", "o", "d", "e", "_", "m", "o", "d", "u", "l", "e", "s", "/", "l",
       "o", "d", "a", "s", "h", "/", "i", "n", "d", "e", "x", ".", "j",
       "s">>,
     \* packages/core/node_modules
     <<"p", "a", "c", "k", "a", "g", "e", "s", "/", "c", "o", "r", "e", "/",
       "n", "o", "d", "e", "_", "m", "o", "d", "u", "l", "e", "s">>,
     \* packages/core/node_modules/x.js
     <<"p", "a", "c", "k", "a", "g", "e", "s", "/", "c", "o", "r", "e", "/",
       "n", "o", "d", "e", "_", "m", "o", "d", "u", "l", "e", "s", "/", "x",
       ".", "j", "s">>,
     \* src/node_modules.ts
     <<"s", "r", "c", "/", "n", "o", "d", "e", "_", "m", "o", "d", "u", "l",
       "e", "s", ".", "t", "s">>,
     \* build
     <<"b", "u", "i", "l", "d">>,
     \* build/out.js
     <<"b", "u", "i", "l", "d", "/", "o", "u", "t", ".", "j", "s">>,
     \* src/build/out.js
     <<"s", "r", "c", "/", "b", "u", "i", "l", "d", "/", "o", "u", "t", ".",
       "j", "s">>,
     \* src/build
     <<"s", "r", "c", "/", "b", "u", "i", "l", "d">>,
     \* error.log
     <<"e", "r", "r", "o", "r", ".", "l", "o", "g">>,
     \* logs/error.log
     <<"l", "o", "g", "s", "/", "e", "r", "r", "o", "r", ".", "l", "o",
       "g">>,
     \* src/index.ts
     <<"s", "r", "c", "/", "i", "n", "d", "e", "x", ".", "t", "s">>,
     \* app.min.js
     <<"a", "p", "p", ".", "m", "i", "n", ".", "j", "s">>,
     \* src/app.min.js
     <<"s", "r", "c", "/", "a", "p", "p", ".", "m", "i", "n", ".", "j",
       "s">>,
     \* src/log
     <<"s", "r", "c", "/", "l", "o", "g">>,
     \* .git
     <<".", "g", "i", "t">>,
     \* src/.env
     <<"s", "r", "c", "/", ".", "e", "n", "v">>,
     \* .cache/x.log
     <<".", "c", "a", "c", "h", "e", "/", "x", ".", "l", "o", "g">>,
     \* public/.app/x
     <<"p", "u", "b", "l", "i", "c", "/", ".", "a", "p", "p", "/", "x">>,
     \* y
     <<"y">>,
     \* !x
     <<"!", "x">>
    }

\* The pattern lists (this.ignorePatterns) asked with: the empty list, one
\* pattern of each class, negations and a comment.
MatchPatternLists ==
    {
     \* []
     <<>>,
     \* /public/app
     <<<<"/", "p", "u", "b", "l", "i", "c", "/", "a", "p", "p">>>>,
     \* /build
     <<<<"/", "b", "u", "i", "l", "d">>>>,
     \* /!x
     <<<<"/", "!", "x">>>>,
     \* node_modules/
     <<<<"n", "o", "d", "e", "_", "m", "o", "d", "u", "l", "e", "s", "/">>>>,
     \* core/node_modules/
     <<<<"c", "o", "r", "e", "/", "n", "o", "d", "e", "_", "m", "o", "d",
       "u", "l", "e", "s", "/">>>>,
     \* build/
     <<<<"b", "u", "i", "l", "d", "/">>>>,
     \* build/**
     <<<<"b", "u", "i", "l", "d", "/", "*", "*">>>>,
     \* **/*.log
     <<<<"*", "*", "/", "*", ".", "l", "o", "g">>>>,
     \* public/app
     <<<<"p", "u", "b", "l", "i", "c", "/", "a", "p", "p">>>>,
     \* *.log
     <<<<"*", ".", "l", "o", "g">>>>,
     \* *.min.js
     <<<<"*", ".", "m", "i", "n", ".", "j", "s">>>>,
     \* *.log | !error.log
     <<<<"*", ".", "l", "o", "g">>,
       <<"!", "e", "r", "r", "o", "r", ".", "l", "o", "g">>>>,
     \* !*.log | *.log
     <<<<"!", "*", ".", "l", "o", "g">>,
       <<"*", ".", "l", "o", "g">>>>,
     \* build/ | *.min.js | /public/app
     <<<<"b", "u", "i", "l", "d", "/">>,
       <<"*", ".", "m", "i", "n", ".", "j", "s">>,
       <<"/", "p", "u", "b", "l", "i", "c", "/", "a", "p", "p">>>>,
     \* (empty) | node_modules/ | #build
     <<<<>>,
       <<"n", "o", "d", "e", "_", "m", "o", "d", "u", "l", "e", "s", "/">>,
       <<"#", "b", "u", "i", "l", "d">>>>,
     \* a*.*s
     <<<<"a", "*", ".", "*", "s">>>>,
     \* build
     <<<<"b", "u", "i", "l", "d">>>>,
     \* *
     <<<<"*">>>>,
     \* !.git, !src/.env
     <<<<"!", ".", "g", "i", "t">>, <<"!", "s", "r", "c", "/", ".", "e", "n",
       "v">>>>,
     \* # .git, *.ts
     <<<<"#", " ", ".", "g", "i", "t">>, <<"*", ".", "t", "s">>>>
    }

\* A caller is about to ask shouldIgnore(relativePath, isDirectory) of a
\* synchronizer whose list is patterns.
InitMatch ==
    /\ fs = [p \in Slots |-> Absent]
    /\ snapshot = NoSnapshot
    /\ store = {}
    /\ fileHashes = <<>>
    /\ merkleDAG = EmptyDAG
    /\ ignorePatterns \in MatchPatternLists
    /\ status = "Uninitialized"
    /\ clean = FALSE
    /\ replay = {}
    /\ \E relativePath \in MatchPaths, isDirectory \in BOOLEAN :
          ret = [NoRet EXCEPT !.op = "ask", !.patterns = ignorePatterns,
                              !.path = relativePath, !.isDirectory = isDirectory]

\* The call; its answer is kept in ret.
ShouldIgnoreCall ==
    /\ ret.op = "ask"
    /\ ret' = [ret EXCEPT !.op = "shouldIgnore",
                          !.ignored = shouldIgnore(ignorePatterns, ret.path, ret.isDirectory)]
    /\ UNCHANGED <<fs, snapshot, store, fileHashes, merkleDAG, ignorePatterns, status,
                   clean, replay>>

NextMatch == ShouldIgnoreCall

SpecMatch == InitMatch /\ [][NextMatch]_vars

(***************************************************************************)
(* One synchronizer process at a time on the root: the tree changes, the   *)
(* process restarts, and no write of the snapshot fails.                   *)
(***************************************************************************)
NextAgree ==
    \/ \E p \in Tracked, c \in Contents : WriteFile(p, c)
    \/ \E p \in Tracked : Remove(p)
    \/ \E patterns \in PatternLists : Construct(patterns)
    \/ \E patterns \in PatternLists : updateIgnorePatterns(patterns)
    \/ InitializeLoaded
    \/ \E rev \in BOOLEAN : InitializeScanned(rev, NoRace, {FALSE})
    \/ \E rev \in BOOLEAN : checkForChanges(rev, NoRace, {FALSE})

SpecAgree == Init /\ [][NextAgree]_vars

(***************************************************************************)
(* buildMerkleDAG on two FileStates.                                       *)
(***************************************************************************)
MaxRootEntries == 2

RootPaths == {pA, pDB, pNX}

\* The FileStates of at most MaxRootEntries paths, in every insertion order.
RootMaps ==
    {m \in UNION {[1..n -> RootPaths \X {Sha256(c) : c \in Contents}] : n \in 0..MaxRootEntries} :
        \A i, j \in 1..Len(m) : m[i][1] = m[j][1] => i = j}

\* A synchronizer holds one FileState; a second one is given.
InitRoot ==
    /\ fs = [p \in Slots |-> Absent]
    /\ snapshot = NoSnapshot
    /\ store = {}
    /\ fileHashes \in RootMaps
    /\ merkleDAG = EmptyDAG
    /\ ignorePatterns = <<>>
    /\ status = "Uninitialized"
    /\ clean = FALSE
    /\ replay = {}
    /\ \E other \in RootMaps : ret = [NoRet EXCEPT !.op = "maps", !.other = other]

\* buildMerkleDAG of both; the data of the two root nodes is kept in ret.
BuildBoth ==
    /\ ret.op = "maps"
    /\ merkleDAG' = buildMerkleDAG(fileHashes)
    /\ ret' = [ret EXCEPT !.op = "buildMerkleDAG",
                          !.rootData = rootNodeData(fileHashes),
                          !.otherRootData = rootNodeData(ret.other)]
    /\ UNCHANGED <<fs, snapshot, store, fileHashes, ignorePatterns, status, clean, replay>>

NextRoot == BuildBoth

SpecRoot == InitRoot /\ [][NextRoot]_vars

(***************************************************************************)
(* generateFileHashes call by call, on trees with symbolic links to        *)
(* directories above them.  A path the scan visits may run through links;  *)
(* the operating system resolves it component by component and gives up    *)
(* (ELOOP) after SymloopMax links (40 on Linux).  ret.frames is the stack  *)
(* of the calls of generateFileHashes in progress: the directory, the      *)
(* links its path runs through, the entries of the for loop still to do,   *)
(* and the call's map.                                                     *)
(***************************************************************************)
SymloopMax == 2

\* The calls of generateFileHashes that fit on the stack.
MaxFrames == 8

\* The ELOOP test left out: links are followed without limit.
NeverTooManyLinks(links) == FALSE

TooManyLinks(links) == links > SymloopMax

ChildPath(dir, name) == IF dir = Root THEN name ELSE dir \o <<"/">> \o name

\* The name of an entry of the tree: the last part of its path.
EntryName(p) == Split(p, "/")[Len(Split(p, "/"))]

\* fs.stat(fullPath) of line 66 for the entry `child` of a directory whose
\* path was resolved through `links` links: the kind ("err" when stat
\* throws), the entry of the tree the path resolves to and the links
\* followed on the way.
StatChild(tree, links, child) ==
    IF tree[child].type = "symloop"
    THEN IF TooManyLinks(links + 1) THEN [kind |-> "err", node |-> Root, links |-> links]
         ELSE [kind |-> "dir", node |-> tree[child].data, links |-> links + 1]
    ELSE IF tree[child].type \in {"dir", "file"}
         THEN [kind |-> tree[child].type, node |-> child, links |-> links]
    ELSE [kind |-> "err", node |-> Root, links |-> links]

\* Lines 44-52 of the call generateFileHashes(dir), dir resolving to the
\* directory `node` of the tree: readdir lists it; when it throws the call
\* has no entry to do.
OpenFrame(tree, dir, node, links) ==
    [dir |-> dir, links |-> links,
     entries |-> IF ReaddirFails(tree, node) THEN <<>>
                 ELSE SelectSeq2(SlotOrder, tree, node),
     map |-> <<>>]

\* hashFile(fullPath) inside the try of lines 85-91: the entry set into the
\* map, or nothing when readFile throws.
HashInto(tree, map, fullPath, child) ==
    IF tree[child].ok THEN MapSet(map, fullPath, Sha256(tree[child].data)) ELSE map

\* The trees of the scans: a is a file (readable or not), a link to
\* nothing or a link to the root; d/b a file or a link to d or to the
\* root; n a directory (readable or not) or a link to the root.
ScanTree(a, db, n, nx) ==
    [p \in Slots |-> CASE p = pA -> a [] p = pD -> EmptyDir [] p = pDB -> db
                         [] p = pN -> n [] OTHER -> nx]

ScanTrees ==
    {tree \in {ScanTree(a, db, n, nx) :
                  a \in {Entry("file", <<"u">>, TRUE), Entry("file", <<"u">>, FALSE),
                         Entry("dangling", <<>>, TRUE), Entry("symloop", Root, TRUE)},
                  db \in {Absent, Entry("file", <<"u">>, TRUE),
                          Entry("symloop", pD, TRUE), Entry("symloop", Root, TRUE)},
                  n \in {Absent, EmptyDir, Entry("dir", <<>>, FALSE),
                         Entry("symloop", Root, TRUE)},
                  nx \in {Absent, Entry("file", <<"u">>, TRUE)}} :
        tree[pNX] # Absent => tree[pN].type = "dir"}

\* A synchronizer constructed on a root without snapshot.
InitScan ==
    /\ fs \in ScanTrees
    /\ snapshot = NoSnapshot
    /\ store = {}
    /\ fileHashes = <<>>
    /\ merkleDAG = EmptyDAG
    /\ ignorePatterns = <<>>
    /\ status = "Uninitialized"
    /\ clean = FALSE
    /\ replay = {}
    /\ ret = [NoRet EXCEPT !.op = "new"]

\* initialize() finds no snapshot and calls generateFileHashes(rootDir)
\* (line 382).
StartScan ==
    /\ ret.op = "new"
    /\ snapshot.kind = "none"
    /\ ret' = [ret EXCEPT !.op = "scanning", !.frames = <<OpenFrame(fs, Root, Root, 0)>>]
    /\ UNCHANGED <<fs, snapshot, store, fileHashes, merkleDAG, ignorePatterns, status,
                   clean, replay>>

\* The frames once the first entry of the top frame is done, the top
\* frame's map being map.
Advanced(frames, map) ==
    [frames EXCEPT ![Len(frames)] = [@ EXCEPT !.entries = Tail(@), !.map = map]]

\* One iteration of the for loop (lines 54-95) of the call on top of the
\* stack; for a directory the call of line 75 is entered.
ScanEntryStep ==
    /\ ret.op = "scanning"
    /\ ret.frames[Len(ret.frames)].entries # <<>>
    /\ LET top == ret.frames[Len(ret.frames)]
           child == Head(top.entries)
           fullPath == ChildPath(top.dir, EntryName(child))
           st == StatChild(fs, top.links, child)
       IN  IF shouldIgnore(ignorePatterns, fullPath, DirentIsDirectory(fs, child))
           THEN ret' = [ret EXCEPT !.frames = Advanced(@, top.map)]
           ELSE IF st.kind = "dir" /\ ~shouldIgnore(ignorePatterns, fullPath, TRUE)
           THEN /\ Len(ret.frames) < MaxFrames
                /\ ret' = [ret EXCEPT !.frames =
                               Append(Advanced(@, top.map),
                                      OpenFrame(fs, fullPath, st.node, st.links))]
           ELSE IF st.kind = "file" /\ ~shouldIgnore(ignorePatterns, fullPath, FALSE)
           THEN ret' = [ret EXCEPT !.frames =
                           Advanced(@, HashInto(fs, top.map, fullPath, child))]
           ELSE ret' = [ret EXCEPT !.frames = Advanced(@, top.map)]
    /\ UNCHANGED <<fs, snapshot, store, fileHashes, merkleDAG, ignorePatterns, status,
                   clean, replay>>

\* Line 96 of a call made at line 75: the caller sets the entries
\* returned into its own map (lines 76-80).
ReturnStep ==
    /\ ret.op = "scanning"
    /\ Len(ret.frames) > 1
    /\ ret.frames[Len(ret.frames)].entries = <<>>
    /\ ret' = [ret EXCEPT !.frames =
                   [i \in 1..(Len(@) - 1) |->
                       IF i = Len(@) - 1
                       THEN [@[i] EXCEPT !.map = MapSetAll(@, ret.frames[Len(ret.frames)].map)]
                       ELSE @[i]]]
    /\ UNCHANGED <<fs, snapshot, store, fileHashes, merkleDAG, ignorePatterns, status,
                   clean, replay>>

\* Line 96 of the call on rootDir: the scan returns its map to line 382.
ScanReturn ==
    /\ ret.op = "scanning"
    /\ Len(ret.frames) = 1
    /\ ret.frames[1].entries = <<>>
    /\ ret' = [ret EXCEPT !.op = "scanned"]
    /\ UNCHANGED <<fs, snapshot, store, fileHashes, merkleDAG, ignorePatterns, status,
                   clean, replay>>

\* Lines 382-384 and 276 with the map the scan returned.
InitializeAfterScan ==
    /\ ret.op = "scanned"
    /\ InitializeWith([map |-> ret.frames[1].map, io |-> {}, dirThrown |-> {}],
                      NoRace, FALSE)

\* The steps of the scan.
ScanSteps == StartScan \/ ScanEntryStep \/ ReturnStep \/ ScanReturn

NextScan ==
    \/ StartScan
    \/ ScanEntryStep
    \/ ReturnStep
    \/ ScanReturn
    \/ InitializeAfterScan

\* Each await of the scan is resumed once its file system call has
\* answered.
SpecScan == InitScan /\ [][NextScan]_vars /\ WF_vars(ScanSteps)

(***************************************************************************)
(* Properties.                                                             *)
(***************************************************************************)
Keys(pairs) == {pr[1] : pr \in pairs}

NoDuplicates(list) == Cardinality(Range(list)) = Len(list)

\* d is the exact difference between the FileStates old and new (sets of
\* <<path, hash>> pairs).
ExactDiff(d, old, new) ==
    /\ Range(d.added) = Keys(new) \ Keys(old)
    /\ Range(d.removed) = Keys(old) \ Keys(new)
    /\ Range(d.modified) =
          {k \in Keys(old) \cap Keys(new) : \E po \in old, pn \in new :
                                               po[1] = k /\ pn[1] = k /\ po[2] # pn[2]}
    /\ NoDuplicates(d.added) /\ NoDuplicates(d.removed) /\ NoDuplicates(d.modified)
    /\ Range(d.added) \cap Range(d.removed) = {}
    /\ Range(d.added) \cap Range(d.modified) = {}
    /\ Range(d.removed) \cap Range(d.modified) = {}

\* C1: a checkForChanges() that returns right after another
\* checkForChanges(), with no change of the tree in between or during it,
\* returns three empty lists, whatever the first call did.
C1_SecondCheckEmpty ==
    (ret.op = "checkForChanges" /\ ret.after = "checkForChanges" /\ ret.outcome = "ok")
        => DiffEmpty(ret.diff)

\* The second call of two in a row went through compareStates (the listing
\* order changed) and returned.
C1_Witness ==
    /\ ret.op = "checkForChanges" /\ ret.after = "checkForChanges"
    /\ ret.outcome = "ok" /\ ret.compared

\* C2: the diff a checkForChanges() returns after comparing the held map
\* with the scanned one is their exact difference: added, removed and
\* modified are the right sets, without duplicates and pairwise disjoint.
C2_DiffExact ==
    [][(ret'.op = "checkForChanges" /\ ret'.compared /\ ret'.outcome = "ok")
          => ExactDiff(ret'.diff, AsSet(fileHashes), ret'.scan)]_vars

\* A diff with an added and a removed path at once.
C2_Witness ==
    /\ ret.op = "checkForChanges" /\ ret.outcome = "ok"
    /\ ret.diff.added # <<>> /\ ret.diff.removed # <<>>

\* C3: when the scanned FileState equals the held one as a mapping, the
\* DAG comparison reports nothing, compareStates is not run, the held map
\* and DAG stay and the snapshot file is not written.
C3_GateClosedOnEqualMaps ==
    [][(ret'.op = "checkForChanges" /\ ret'.scan = AsSet(fileHashes))
          => /\ ~ret'.gate /\ ~ret'.compared /\ ~ret'.wrote
             /\ fileHashes' = fileHashes
             /\ merkleDAG' = merkleDAG
             /\ snapshot' = snapshot]_vars

\* C4: while no call has failed since initialize() returned, the held
\* FileState is the one of the latest scan, the returned diffs replayed on
\* the key set held after initialize() give the held key set, and a scan
\* that differs from the held FileState returns a non-empty diff.
C4_DiffsTrackTree ==
    (status = "Ready" /\ clean)
        => /\ replay = KeySet(fileHashes)
           /\ ret.scanned => AsSet(fileHashes) = ret.scan
           /\ (ret.op = "checkForChanges" /\ ~ret.same) => ~DiffEmpty(ret.diff)

\* A successful check, with no failed call since initialize(), whose scan
\* differs from the held FileState and reports a modified and a removed
\* path.
C4_Witness ==
    /\ status = "Ready" /\ clean
    /\ ret.op = "checkForChanges" /\ ret.outcome = "ok" /\ ~ret.same
    /\ ret.diff.modified # <<>> /\ ret.diff.removed # <<>>

\* C5: an initialize() that starts without a snapshot file and returns has
\* scanned the tree, holds the scanned FileState and the DAG built from it,
\* and has written a snapshot whose FileState equals the held one.
C5_FirstInitialize ==
    [][(snapshot.kind = "none" /\ ret'.op = "initialize" /\ ret'.outcome = "ok")
          => /\ ret'.scanned /\ ret'.wrote
             /\ AsSet(fileHashes') = ret'.scan
             /\ merkleDAG' = buildMerkleDAG(fileHashes')
             /\ snapshot'.kind = "ok"
             /\ AsSet(snapshot'.fileHashes) = AsSet(fileHashes')]_vars

\* A first initialize() that found files.
C5_Witness ==
    /\ ret.op = "initialize" /\ ret.outcome = "ok" /\ ret.scanned
    /\ ret.scan # {}

\* C6: with a readable snapshot, initialize() adopts its FileState without
\* scanning or writing, and the checkForChanges() that follows returns the
\* exact difference between the snapshot's FileState and the scanned tree.
C6_RestartDetection ==
    [][/\ (snapshot.kind = "ok" /\ ret'.op = "initialize")
            => /\ ret'.outcome = "ok" /\ ~ret'.scanned /\ ~ret'.wrote
               /\ snapshot' = snapshot
               /\ AsSet(fileHashes') = AsSet(snapshot.fileHashes)
       /\ (ret.op = "initialize" /\ ret.outcome = "ok" /\ ~ret.scanned
             /\ ret'.op = "checkForChanges" /\ ret'.outcome = "ok")
            => ExactDiff(ret'.diff, AsSet(snapshot.fileHashes), ret'.scan)]_vars

\* The first check after a restart reports a change made while no
\* synchronizer ran.
C6_Witness ==
    /\ ret.op = "checkForChanges" /\ ret.after = "initialize-loaded"
    /\ ret.outcome = "ok" /\ ~DiffEmpty(ret.diff)

\* C7: an initialize() whose snapshot cannot be read or parsed throws, does
\* not scan, leaves the snapshot file as it is and leaves the held
\* FileState as it was before the call.
C7_LoadFailureKeepsState ==
    [][(snapshot.kind \in {"unreadable", "badjson", "malformed"} /\ ret'.op = "initialize")
          => /\ ret'.outcome = "threw" /\ ~ret'.scanned /\ ~ret'.wrote
             /\ snapshot' = snapshot
             /\ fileHashes' = fileHashes]_vars

(***************************************************************************)
(* Properties of the scan (SpecIO).                                        *)
(***************************************************************************)
\* The proper ancestors of a path of the universe.
Ancestors(p) == {q \in Slots : StartsWith(p, q \o <<"/">>)}

\* The matcher ignores the entry, asked with the type the listing reports
\* or with the type stat reports.
IgnoredAs(tree, patterns, p) ==
    IF shouldIgnore(patterns, p, DirentIsDirectory(tree, p))
    THEN TRUE
    ELSE shouldIgnore(patterns, p, Stat(tree, p) = "dir")

\* The files a scan must find: what stat reports as a regular file,
\* readable, not ignored, below directories that are listable and not
\* ignored.
ExpectedFileState(tree, patterns) ==
    {<<p, Sha256(tree[p].data)>> : p \in
        {f \in Slots :
            /\ Stat(tree, f) = "file" /\ tree[f].ok
            /\ ~IgnoredAs(tree, patterns, f)
            /\ \A q \in Ancestors(f) :
                  tree[q].type = "dir" /\ tree[q].ok /\ ~IgnoredAs(tree, patterns, q)}}

\* C8: a scan returns every non-ignored readable file whose directories
\* can be listed, and nothing else: an unlistable directory, an entry stat
\* fails on and an unreadable file take only their own subtree out of the
\* result, and the call does not throw.
C8_BestEffortScan ==
    ret.scanned
        => /\ ret.scan = ExpectedFileState(fs, ignorePatterns)
           /\ ret.outcome = "ok"

\* A scan that met an unlistable directory with a file in it, a second
\* file it could hash, and a dangling link or an unreadable file.
C8_Witness ==
    /\ ret.scanned
    /\ ~fs[pD].ok /\ fs[pDB].type = "file"
    /\ fs[pNX].type = "file" /\ fs[pN].type = "dir"
    /\ \/ fs[pA].type = "dangling"
       \/ fs[pA].type = "file" /\ ~fs[pA].ok

\* C9: when hashFile finds a directory where the scan had found a regular
\* file, the initialize() or checkForChanges() around it throws.
C9_DirectoryHashIsFatal ==
    (ret.scanned /\ ret.dirThrown # {}) => ret.outcome = "threw"

\* C10: a scan issues no stat, readdir or read on an entry the matcher
\* ignores with the type the listing reports, nor on a path below it.
C10_NoIoOnIgnored ==
    (ret.scanned /\ ret.race = NoRace)
        => \A p \in Slots :
              (/\ fs[p].type # "none"
               /\ shouldIgnore(ignorePatterns, p, DirentIsDirectory(fs, p)))
                 => \A call \in ret.io :
                       /\ call[2] # p
                       /\ ~StartsWith(call[2], p \o <<"/">>)

\* A scan of a tree with an ignored directory that holds a file, which did
\* stat the directory that is not ignored.
C10_Witness ==
    /\ ret.scanned /\ ret.race = NoRace
    /\ fs[pN].type = "dir" /\ fs[pNX].type = "file"
    /\ <<"stat", pD>> \in ret.io

\* The entry is a symbolic link.
IsLink(tree, p) == tree[p].type \in {"symfile", "symdir", "dangling"}

\* C11: a scan hashes no entry that is a symbolic link and lists no
\* directory through one, so no link is a key of the scanned FileState.
C11_LinksSkipped ==
    (ret.scanned /\ ret.race = NoRace)
        => \A p \in Slots :
              IsLink(fs, p)
                 => /\ p \notin Keys(ret.scan)
                    /\ <<"read", p>> \notin ret.io
                    /\ <<"readdir", p>> \notin ret.io

\* C12: updateIgnorePatterns() leaves the held map, the held DAG, the
\* snapshot file and every getFileHash answer as they were, and the
\* checkForChanges() that follows it scans with the list that was passed:
\* a held path that list takes out of the scan is reported removed, a path
\* the scan finds under that list and that is not held is reported added.
C12_PatternsProspective ==
    [][/\ ret'.op = "updateIgnorePatterns"
            => /\ fileHashes' = fileHashes /\ merkleDAG' = merkleDAG
               /\ snapshot' = snapshot
               /\ \A p \in Slots : getFileHash(p)' = getFileHash(p)
       /\ (ret.op = "updateIgnorePatterns" /\ ret'.op = "checkForChanges")
            => /\ ret'.outcome = "ok"
               /\ KeySet(fileHashes) \ Keys(ExpectedFileState(fs, ret.patterns))
                     \subseteq Range(ret'.diff.removed)
               /\ Keys(ExpectedFileState(fs, ret.patterns)) \ KeySet(fileHashes)
                     \subseteq Range(ret'.diff.added)]_vars

\* The check after a new list reports a file that is still there as
\* removed and a file that was there all along as added.
C12_Witness ==
    /\ ret.op = "checkForChanges" /\ ret.after = "updateIgnorePatterns"
    /\ pA \in Range(ret.diff.removed) /\ fs[pA].type = "file"
    /\ pNX \in Range(ret.diff.added)

\* C13: deleteSnapshot() returns normally when there is no snapshot file,
\* also when it is called twice in a row; when it returns normally no
\* snapshot file is left, and when it throws there was a file and the file
\* is left as it was.
C13_DeleteErrorPolicy ==
    [][ret'.op = "deleteSnapshot"
          => /\ snapshot.kind = "none" => (ret'.outcome = "ok" /\ snapshot' = snapshot)
             /\ ret'.outcome = "ok" => snapshot'.kind = "none"
             /\ ret'.outcome = "threw" => (snapshot.kind # "none" /\ snapshot' = snapshot)
             /\ (ret.op = "deleteSnapshot" /\ ret.outcome = "ok") => ret'.outcome = "ok"]_vars

\* A deleteSnapshot() right after another one, returning normally with no
\* snapshot file left.
C13_Witness ==
    /\ ret.op = "deleteSnapshot" /\ ret.after = "deleteSnapshot"
    /\ ret.outcome = "ok" /\ snapshot.kind = "none"

\* C14: a deleteSnapshot(path) that returns normally removes the snapshot
\* file of this synchronizer exactly when path resolves to its root, and
\* then the next initialize() scans and writes a snapshot; for a path that
\* resolves to another root this synchronizer's file stays, and only the
\* file of that root goes; initialize() and checkForChanges() leave the
\* files of other roots alone.
C14_LocationByRoot ==
    [][/\ (ret'.op = "deleteSnapshot" /\ ret'.outcome = "ok")
            => IF ret'.root \in SameRoot
               THEN snapshot'.kind = "none" /\ store' = store
               ELSE /\ snapshot' = snapshot
                    /\ store' = store \ {getSnapshotPath(ret'.root)}
       /\ (ret.op = "deleteSnapshot" /\ ret.outcome = "ok"
             /\ ret.root \in SameRoot /\ ret'.op = "initialize")
            => /\ ret'.scanned /\ ret'.wrote /\ snapshot'.kind = "ok"
       /\ ret'.op \in {"initialize", "checkForChanges"} => store' = store
       /\ LocationByResolvedRoot]_vars

\* After a deleteSnapshot for a path that resolves to this root, while
\* another root's snapshot stayed, initialize() scanned and wrote a new
\* snapshot.
C14_Witness ==
    /\ ret.op = "initialize" /\ ret.scanned /\ ret.wrote
    /\ ret.after = "deleteSnapshot"
    /\ snapshot.kind = "ok" /\ store # {}

\* C15: the snapshot a save writes holds the held FileState, pair by pair,
\* and an initialize() that loads a snapshot holds a FileState with the
\* snapshot's entries and a DAG that compares with the saved DAG without
\* added, removed or modified nodes.
C15_SnapshotRoundTrip ==
    [][/\ ret'.wrote
            => /\ snapshot'.kind = "ok"
               /\ AsSet(snapshot'.fileHashes) = AsSet(fileHashes')
               /\ Len(snapshot'.fileHashes) = Len(fileHashes')
       /\ (ret'.op = "initialize" /\ ret'.outcome = "ok" /\ ~ret'.scanned)
            => /\ AsSet(fileHashes') = AsSet(snapshot.fileHashes)
               /\ Len(fileHashes') = Len(snapshot.fileHashes)
               /\ ~DagChanged(DagCompare(snapshot.merkleDAG, merkleDAG'))]_vars

\* A new instance has loaded a snapshot of two files that was saved with
\* d/b before a.
C15_Witness ==
    /\ ret.op = "initialize" /\ ret.outcome = "ok" /\ ~ret.scanned
    /\ ret.after = "other"
    /\ Len(fileHashes) = 2 /\ fileHashes[1][1] = pDB

(***************************************************************************)
(* Properties of the matcher (SpecMatch).                                  *)
(***************************************************************************)
\* The segments of a path, without the empty ones.
Segments(path) == SelectSeq(Split(path, "/"), LAMBDA seg : seg # <<>>)

\* Some segment of the path starts with '.'.
HasHiddenSegment(path) ==
    \E i \in 1..Len(Segments(path)) : Head(Segments(path)[i]) = "."

\* C16: whatever the pattern list, shouldIgnore answers true for a path
\* with a segment that starts with '.', asked as a directory or not.
C16_HiddenAlwaysIgnored ==
    (ret.op = "shouldIgnore" /\ HasHiddenSegment(ret.path)) => ret.ignored

\* A hidden path asked as a file under a list of negations of it.
C16_Witness ==
    /\ ret.op = "shouldIgnore" /\ ret.ignored /\ ~ret.isDirectory
    /\ ret.path = <<"s", "r", "c", "/", ".", "e", "n", "v">>
    /\ Len(ret.patterns) = 2 /\ Head(ret.patterns[1]) = "!"

\* The call was made with the one-pattern list <<pattern>>.
AskedWith(pattern) == ret.op = "shouldIgnore" /\ ret.patterns = <<pattern>>

\* A pattern '/X': leading slash, no wildcard, no trailing slash.
IsRootLiteral(pattern) ==
    /\ Len(pattern) >= 2 /\ Head(pattern) = "/" /\ pattern[Len(pattern)] # "/"
    /\ ~Includes(pattern, "*")

\* The path without leading and trailing slashes is X or lies below X.
IsAtOrBelow(path, X) ==
    \/ JoinParts(Segments(path)) = X
    \/ StartsWith(JoinParts(Segments(path)), X \o <<"/">>)

\* C17: under the one pattern '/X', X literal, a path without hidden
\* segment is ignored exactly when its normalized form is X or starts
\* with X + '/'.
C17_RootRelativeLiteral ==
    \A pattern \in {q \in Range(ret.patterns) : IsRootLiteral(q)} :
        (AskedWith(pattern) /\ ~HasHiddenSegment(ret.path))
            => (ret.ignored <=> IsAtOrBelow(ret.path, Tail(pattern)))

\* A pattern 'D/': trailing slash, no leading slash, no wildcard, not a
\* comment and not a negation.
IsDirectoryLiteral(pattern) ==
    /\ Len(pattern) >= 2 /\ pattern[Len(pattern)] = "/"
    /\ Head(pattern) \notin {"/", "!", "#"}
    /\ ~Includes(pattern, "*")

\* The segments segs end with the segments of D.
EndsWithSegments(segs, D) ==
    /\ Len(segs) >= Len(D)
    /\ SubSeq(segs, Len(segs) - Len(D) + 1, Len(segs)) = D

\* A proper prefix of the path ends with the segments of D: the path lies
\* inside a directory D at some depth.
IsInside(path, D) ==
    \E k \in 1..(Len(Segments(path)) - 1) :
        EndsWithSegments(SubSeq(Segments(path), 1, k), D)

\* C18: under the one pattern 'D/', D literal, a path without hidden
\* segment is ignored exactly when it is a directory whose last segments
\* are D, or lies inside such a directory, at any depth.
C18_DirectoryOnlyLiteral ==
    \A pattern \in {q \in Range(ret.patterns) : IsDirectoryLiteral(q)} :
        (AskedWith(pattern) /\ ~HasHiddenSegment(ret.path))
            => (ret.ignored <=>
                   \/ ret.isDirectory /\ EndsWithSegments(Segments(ret.path), Segments(pattern))
                   \/ IsInside(ret.path, Segments(pattern)))

\* A file inside a nested node_modules, asked under 'node_modules/'.
C18_Witness ==
    /\ AskedWith(<<"n", "o", "d", "e", "_", "m", "o", "d", "u", "l", "e", "s", "/">>)
    /\ ret.path = <<"p", "a", "c", "k", "a", "g", "e", "s", "/", "c", "o", "r", "e", "/", "n", "o", "d", "e", "_", "m", "o", "d", "u", "l", "e", "s", "/", "x", ".", "j", "s">>
    /\ ~ret.isDirectory /\ ret.ignored

\* A pattern with a slash inside, without leading or trailing slash, that
\* is no comment and no negation.
IsSlashPattern(pattern) ==
    /\ Len(pattern) >= 3 /\ Includes(pattern, "/")
    /\ Head(pattern) \notin {"/", "!", "#"} /\ pattern[Len(pattern)] # "/"

\* The last segment of the path ends with the characters suffix.
BasenameEndsWith(path, suffix) ==
    /\ Segments(path) # <<>>
    /\ EndsWith(Segments(path)[Len(Segments(path))], suffix)

\* C19: for paths without hidden segment, a pattern 'P/**' (P literal)
\* ignores P itself and every path below P; '**/*.log' ignores every path
\* whose last segment ends in '.log', at the root and deeper; a literal
\* pattern Q with a slash inside and no leading slash ignores exactly the
\* paths whose segments end with Q, or that lie inside such a path, at the
\* root and below other directories.
C19_SlashPatterns ==
    \A pattern \in {q \in Range(ret.patterns) : IsSlashPattern(q)} :
        (AskedWith(pattern) /\ ~HasHiddenSegment(ret.path))
            => /\ (EndsWith(pattern, <<"/", "*", "*">>)
                      /\ ~Includes(DropLast(pattern, 3), "*")
                      /\ IsAtOrBelow(ret.path, DropLast(pattern, 3)))
                    => ret.ignored
               /\ (pattern = <<"*", "*", "/", "*", ".", "l", "o", "g">> /\ BasenameEndsWith(ret.path, <<".", "l", "o", "g">>))
                    => ret.ignored
               /\ ~Includes(pattern, "*")
                    => (ret.ignored <=>
                           \/ EndsWithSegments(Segments(ret.path), Segments(pattern))
                           \/ IsInside(ret.path, Segments(pattern)))

\* 'public/app' asked about src/public/app, which is ignored.
C19_Witness ==
    /\ AskedWith(<<"p", "u", "b", "l", "i", "c", "/", "a", "p", "p">>)
    /\ ret.path = <<"s", "r", "c", "/", "p", "u", "b", "l", "i", "c", "/", "a", "p", "p">>
    /\ ret.ignored

\* A pattern without any slash that is no comment and no negation.
IsBasenamePattern(pattern) ==
    /\ pattern # <<>> /\ ~Includes(pattern, "/")
    /\ Head(pattern) \notin {"!", "#"}

\* The pieces of a pattern between its '*'s.
RECURSIVE StarPieces(_)
StarPieces(p) ==
    IF ~Includes(p, "*") THEN <<p>>
    ELSE LET i == CHOOSE k \in 1..Len(p) :
                      p[k] = "*" /\ \A j \in 1..(k - 1) : p[j] # "*"
         IN  <<SubSeq(p, 1, i - 1)>> \o StarPieces(SubSeq(p, i + 1, Len(p)))

\* The pieces occur in s one after the other, without overlap.
RECURSIVE PiecesInOrder(_, _)
PiecesInOrder(s, pieces) ==
    IF pieces = <<>> THEN TRUE
    ELSE \E k \in 1..(Len(s) - Len(Head(pieces)) + 1) :
            /\ SubSeq(s, k, k + Len(Head(pieces)) - 1) = Head(pieces)
            /\ PiecesInOrder(SubSeq(s, k + Len(Head(pieces)), Len(s)), Tail(pieces))

\* '*' stands for any run of characters of the one segment: the segment
\* starts with the first piece, ends with the last, and holds the pieces
\* between them in order.
WildcardSegment(segment, pattern) ==
    LET pieces == StarPieces(pattern)
        n == Len(pieces)
    IN  IF n = 1 THEN segment = pattern
        ELSE /\ Len(segment) >= Len(pieces[1]) + Len(pieces[n])
             /\ StartsWith(segment, pieces[1])
             /\ EndsWith(segment, pieces[n])
             /\ PiecesInOrder(SubSeq(segment, Len(pieces[1]) + 1,
                                     Len(segment) - Len(pieces[n])),
                              SubSeq(pieces, 2, n - 1))

\* C20: under one pattern without slash, a path without hidden segment is
\* ignored exactly when its last segment matches the pattern, whatever its
\* depth, '*' standing for any run of characters within the segment.
C20_BasenamePattern ==
    \A pattern \in {q \in Range(ret.patterns) : IsBasenamePattern(q)} :
        (AskedWith(pattern) /\ ~HasHiddenSegment(ret.path) /\ Segments(ret.path) # <<>>)
            => (ret.ignored <=>
                   WildcardSegment(Segments(ret.path)[Len(Segments(ret.path))], pattern))

\* '*.log' asked about logs/error.log, which is ignored.
C20_Witness ==
    /\ AskedWith(<<"*", ".", "l", "o", "g">>)
    /\ ret.path = <<"l", "o", "g", "s", "/", "e", "r", "r", "o", "r", ".", "l", "o", "g">>
    /\ ret.ignored

\* The answer of one pattern of the list for the path asked about.
PatternMatches(rawPattern) ==
    matchGitignorePattern(NormalizePath(ret.path), NormalizePath(ret.path),
                          rawPattern, ret.isDirectory)

\* The lists with the same entries as list, in every order.
Reorderings(list) ==
    {[i \in 1..Len(list) |-> list[f[i]]] : f \in Permutations(1..Len(list))}

\* The list with entry put in after its first k entries.
InsertAt(list, k, entry) ==
    SubSeq(list, 1, k) \o <<entry>> \o SubSeq(list, k + 1, Len(list))

\* An empty string, comments and negations.
InertPatterns ==
    {<<>>, <<"#", " ", "x">>, <<"#", "*">>, <<"!", "*">>, <<"!", "b", "u", "i", "l", "d">>, <<"!", "*", ".", "l", "o", "g">>}

\* The answer of shouldIgnore is the same under every order of the list and
\* with an inert pattern put in at any place.
OrderFreeAndInert ==
    /\ \A list \in Reorderings(ret.patterns) :
          shouldIgnore(list, ret.path, ret.isDirectory) = ret.ignored
    /\ \A entry \in InertPatterns, k \in 0..Len(ret.patterns) :
          shouldIgnore(InsertAt(ret.patterns, k, entry), ret.path,
                       ret.isDirectory) = ret.ignored

\* C21 as stated: for every path and every list, shouldIgnore is the
\* disjunction of the answers of the patterns of the list.
C21_DisjunctionEveryPath ==
    ret.op = "shouldIgnore"
        => (ret.ignored <=> \E i \in 1..Len(ret.patterns) : PatternMatches(ret.patterns[i]))

\* C21: for a path without hidden segment shouldIgnore is the disjunction
\* of the answers of the patterns of the list, and a path with a hidden
\* segment is ignored under every list; for every path the answer does
\* not depend on the order of the list, and putting an empty string, a '#'
\* comment or a '!' negation anywhere into the list leaves it unchanged.
C21_InertOrderFree ==
    ret.op = "shouldIgnore"
        => /\ ret.ignored <=>
                  \/ HasHiddenSegment(ret.path)
                  \/ \E i \in 1..Len(ret.patterns) : PatternMatches(ret.patterns[i])
           /\ OrderFreeAndInert

\* error.log asked under '*.log' followed by '!error.log': still ignored.
C21_Witness ==
    /\ ret.op = "shouldIgnore"
    /\ ret.patterns = <<<<"*", ".", "l", "o", "g">>, <<"!", "e", "r", "r", "o", "r", ".", "l", "o", "g">>>>
    /\ ret.path = <<"e", "r", "r", "o", "r", ".", "l", "o", "g">>
    /\ ret.ignored

\* C22: the root node data of two FileStates is equal exactly when the two
\* hold the same paths with the same hashes, whatever the insertion order
\* of each.
C22_RootCharacterisesFileState ==
    ret.op = "buildMerkleDAG"
        => ((ret.rootData = ret.otherRootData) <=> (Range(fileHashes) = Range(ret.other)))

\* C23: with one synchronizer process at a time, no deleteSnapshot and no
\* failing write, after every initialize() and every checkForChanges()
\* that returned the snapshot file exists and its fileHashes are the held
\* map: the same paths with the same hashes.
C23_HeldEqualsSnapshot ==
    (ret.op \in {"initialize", "checkForChanges"} /\ ret.outcome = "ok")
        => /\ snapshot.kind = "ok"
           /\ NoDuplicates(snapshot.fileHashes)
           /\ Range(snapshot.fileHashes) = Range(fileHashes)

\* A checkForChanges() that found a difference in a tree of two files and
\* wrote the snapshot.
C23_Witness ==
    /\ ret.op = "checkForChanges" /\ ret.outcome = "ok" /\ ret.wrote /\ ~ret.same
    /\ Len(fileHashes) = 2
    /\ Range(snapshot.fileHashes) = Range(fileHashes)

\* C24: a checkForChanges() that scanned a FileState other than the held
\* one and whose snapshot write fails raises the error and leaves the held
\* FileState (paths and hashes) and the held DAG as they were before the
\* call.
C24_FailedWriteKeepsHeld ==
    [][(ret'.op = "checkForChanges" /\ ret'.outcome = "threw" /\ ~ret'.same)
          => (AsSet(fileHashes') = AsSet(fileHashes) /\ merkleDAG' = merkleDAG)]_vars

\* C25: on every tree, links back to directories above them and
\* unreadable entries included, the scan that initialize() starts
\* finishes: generateFileHashes(rootDir) returns its map.
C25_ScanTerminates ==
    (ret.op \in {"new", "scanning"}) ~> (ret.op = "scanned")

\* The scan has returned on a tree where n is a link to the root and d/b a
\* link to d, with a hashed through n as often as the system follows the
\* link.
C25_Witness ==
    /\ ret.op = "scanned"
    /\ fs[pN] = Entry("symloop", Root, TRUE)
    /\ fs[pDB] = Entry("symloop", pD, TRUE)
    /\ MapHas(ret.frames[1].map, <<"n", "/", "n", "/", "a">>)

====
